---------------------------- MODULE Spec2Model ----------------------------
(***************************************************************************)
(* A model of apiserver/model.py of Halite-II: the ranking queries over    *)
(* the bot table (a MySQL session counter emulating a rank window          *)
(* function), the reporting views built on them, and the accessors of the  *)
(* object-storage buckets.                                                 *)
(*                                                                         *)
(* A ranking query is evaluated the way its SQL reads: the dummy           *)
(* sub-select "rn" sets the session counter to 0, then the rows are        *)
(* scanned by descending score and each one gets counter := counter + 1.   *)
(* Rows with equal scores are scanned in an order the engine chooses.      *)
(*                                                                         *)
(* The columns mu and language are projected unchanged by every query and  *)
(* read by none of the conditions; the rows of the model leave them out.   *)
(* The outer join with organization is on the organization's primary key:  *)
(* it neither drops nor repeats a row, and its column is left out too.     *)
(***************************************************************************)
EXTENDS Integers, Sequences, FiniteSets, TLC

(* The columns and fields of the rows and records below, in the order    *)
(* every record lists them.                                                *)
Columns ==
    [alias |-> "alias", bot_id |-> "bot_id", bot_rank |-> "bot_rank",
     bucket |-> "bucket", call |-> "call", count |-> "count",
     error |-> "error", games_played |-> "games_played",
     global_rank |-> "global_rank", hackathon_id |-> "hackathon_id",
     id |-> "id", inited |-> "inited", kind |-> "kind",
     local_rank |-> "local_rank", none |-> "none", num_bots |-> "num_bots",
     num_games |-> "num_games", num_submissions |-> "num_submissions",
     out |-> "out", outcome |-> "outcome", rank |-> "rank",
     ranked |-> "ranked", requests |-> "requests", rows |-> "rows",
     score |-> "score", user_id |-> "user_id", value |-> "value",
     variable |-> "variable", version_number |-> "version_number"]

(* ------------------------------ bounds -------------------------------- *)
MaxBots == 3
MaxScore == 1
MaxGames == 1
MaxPrinted == 2
NumReplayBuckets == 2

UserIds == {1, 2}
HackathonIds == {1, 2}
Scores == 0..MaxScore
Games == 0..MaxGames

(* SQL NULL, as a value no counter, rank or aggregate takes. *)
NULL == -1

VARIABLES
    users,                  \* table user: the ids
    bots,                   \* table bot: rows keyed by (user_id, id)
    hackathon_participants, \* table hackathon_participant: <<hackathon_id, user_id>>
    session,                \* the connection's user variables: name -> value
    query,                  \* the query the connection is executing, or Idle
    insts,                  \* alias -> the state of that ranking sub-select
    result,                 \* the rows fetched from the finished query
    stdout,                 \* what the process has printed
    returned,               \* what the last call of a module function gave back
    gcs_buckets,            \* the buckets that exist in object storage
    gcs_requests            \* get_bucket requests sent by the last accessor call

vars == <<users, bots, hackathon_participants, session, query, insts, result,
          stdout, returned, gcs_buckets, gcs_requests>>
db == <<users, bots, hackathon_participants>>
calls == <<stdout, returned, gcs_buckets, gcs_requests>>

(* ---------------------------- the tables ------------------------------ *)
BotRow(u, i, s, g, v) ==
    [games_played |-> g, id |-> i, score |-> s, user_id |-> u, version_number |-> v]

BotsOf(table, u) == {b \in table : b.user_id = u}

(* The version a user's next submission gets: versions count from 1. *)
NextVersion(table, u) == Cardinality(BotsOf(table, u)) + 1

(* Bot tables of at most k rows with games_played drawn from G. The key is *)
(* (user_id, id); a user's bots are numbered from 0.                       *)
RECURSIVE BotTables(_, _)
BotTables(k, G) ==
    IF k = 0 THEN {{}}
    ELSE LET prev == BotTables(k - 1, G)
         IN  prev \cup
             {t \cup {BotRow(u, Cardinality(BotsOf(t, u)), s, g, NextVersion(t, u))} :
                 t \in {p \in prev : Cardinality(p) = k - 1},
                 u \in UserIds, s \in Scores, g \in G}

(* --------------------------- query builders --------------------------- *)
CounterNames == {"rank", "hrank", "rurank"}

RankedBotsDefaultVariable == "rank"
RankedBotsDefaultAlias == "ranked_bots"

(* ranked_bots_query(variable, alias): the ranking of every bot. *)
ranked_bots_query(variable, alias) ==
    [alias |-> alias, hackathon_id |-> 0, kind |-> "ranked_bots", variable |-> variable]

HackathonSharedVariable == "rank"
HackathonDefaultVariable == "hrank"
HackathonDefaultAlias == "hackathon_ranked_bots"

(* hackathon_ranked_bots_query(hackathon_id, variable=, alias=): the       *)
(* ranking of the bots of one hackathon's participants.                    *)
hackathon_ranked_bots_query(hackathon_id, variable, alias) ==
    [alias |-> alias, hackathon_id |-> hackathon_id, kind |-> "hackathon_ranked_bots",
     variable |-> variable]

(* The module-level instance: ranked_bots = ranked_bots_query(). *)
ranked_bots == ranked_bots_query(RankedBotsDefaultVariable, RankedBotsDefaultAlias)

(* all_users: every user, with the aggregates of its bots' ranking rows. *)
all_users == [kind |-> "all_users", ranked |-> ranked_bots]

(* ranked_users_query(alias): users by their best bot; a ranking of its own *)
(* under the counter "rurank".                                             *)
ranked_users_query(alias) ==
    [alias |-> alias, kind |-> "ranked_users",
     ranked |-> ranked_bots_query("rurank", RankedBotsDefaultAlias)]

(* total_ranked_bots: SELECT count FROM bot WHERE games_played > 0. *)
total_ranked_bots == [kind |-> "total_ranked_bots"]

(* hackathon_ranked_bots_users_query(hackathon_id, alias=): the module's   *)
(* ranked_bots joined with the hackathon's ranking under alias local_rank. *)
hackathon_ranked_bots_users_query(hackathon_id, alias) ==
    [alias |-> alias, kind |-> "hackathon_ranked_bots_users",
     local_rank |-> hackathon_ranked_bots_query(hackathon_id,
                        HackathonDefaultVariable, "local_rank"),
     ranked |-> ranked_bots]

(* The ranking sub-selects a query holds. *)
SubSelects(q) ==
    CASE q.kind \in {"ranked_bots", "hackathon_ranked_bots"} -> {q}
      [] q.kind \in {"all_users", "ranked_users"} -> {q.ranked}
      [] q.kind = "hackathon_ranked_bots_users" -> {q.ranked, q.local_rank}
      [] OTHER -> {}

Aliases(q) == {s.alias : s \in SubSelects(q)}
Sub(q, a) == CHOOSE s \in SubSelects(q) : s.alias = a

(* ------------------------ evaluating a ranking ------------------------ *)
(* bots JOIN hackathon_participants ON the user and the hackathon: one row *)
(* for every pair that matches.                                            *)
JoinAnyHackathon(b, p, hackathon_id) == b.user_id = p[2]
JoinOn(b, p, hackathon_id) == b.user_id = p[2] /\ p[1] = hackathon_id

HackathonJoin(hackathon_id) ==
    {b \in bots : \E p \in hackathon_participants : JoinOn(b, p, hackathon_id)}

SourceRows(q) ==
    IF q.kind = "ranked_bots" THEN bots ELSE HackathonJoin(q.hackathon_id)

RankedRow(b, r) ==
    [bot_id |-> b.id, bot_rank |-> r, games_played |-> b.games_played,
     score |-> b.score, user_id |-> b.user_id, version_number |-> b.version_number]

Range(f) == {f[i] : i \in DOMAIN f}

(* The rows a sub-select has still to emit. *)
Remaining(q, i) ==
    {b \in SourceRows(q) :
        \A r \in Range(i.out) : ~(r.user_id = b.user_id /\ r.bot_id = b.id)}

(* ORDER BY score DESC: the next row is one no remaining row outscores;    *)
(* among equal scores the engine chooses.                                  *)
ScoreAscending(a, b) == a.score <= b.score
ScoreDescending(a, b) == a.score >= b.score

NextRows(S) == {b \in S : \A c \in S : ScoreDescending(b, c)}

(* "@v := 0" of the sub-select rn. *)
CounterInitOnce(v) == IF session[v] = NULL THEN 0 ELSE session[v]
CounterInit(v) == 0

(* "@v := @v + 1": NULL + 1 is NULL. *)
CounterNext(v) == IF session[v] = NULL THEN NULL ELSE session[v] + 1

NewInstance(q) ==
    [inited |-> FALSE, out |-> <<>>, variable |-> q.variable]

InstanceDone(q, i) == i.inited /\ Remaining(q, i) = {}

Idle == [kind |-> "idle"]
NoResult == [none |-> TRUE]
NoInstances == [a \in {} |-> 0]
Fetched == "rows" \in DOMAIN result

(* ----------------------- evaluating the queries ----------------------- *)
(* The rows sub-select a has emitted. *)
Out(a) == Range(insts[a].out)

(* The row an outer join gives a user no ranking row matches. *)
NullRankedRow ==
    [bot_id |-> NULL, bot_rank |-> NULL, games_played |-> NULL, score |-> NULL,
     user_id |-> NULL, version_number |-> NULL]

(* SQL aggregates over the rows of a group: count counts rows; sum, max    *)
(* and min skip NULL and are NULL when nothing is left.                    *)
NonNull(G, col) == {r \in G : r[col] # NULL}

CountRows(G) == Cardinality(G)

RECURSIVE SumOver(_, _)
SumOver(G, col) ==
    IF G = {} THEN 0
    ELSE LET r == CHOOSE x \in G : TRUE IN r[col] + SumOver(G \ {r}, col)

SumColumn(G, col) ==
    IF NonNull(G, col) = {} THEN NULL ELSE SumOver(NonNull(G, col), col)

MaxColumn(G, col) ==
    IF NonNull(G, col) = {} THEN NULL
    ELSE CHOOSE m \in {r[col] : r \in NonNull(G, col)} :
             \A r \in NonNull(G, col) : r[col] <= m

MinColumn(G, col) ==
    IF NonNull(G, col) = {} THEN NULL
    ELSE CHOOSE m \in {r[col] : r \in NonNull(G, col)} :
             \A r \in NonNull(G, col) : r[col] >= m

Coalesce(x, d) == IF x = NULL THEN d ELSE x

(* users LEFT OUTER JOIN ranked_bots ON ranked_bots.user_id = users.id,    *)
(* the rows of one user.                                                   *)
OuterJoined(u, a) ==
    LET m == {r \in Out(a) : r.user_id = u}
    IN  IF m = {} THEN {NullRankedRow} ELSE m

(* all_users, GROUP BY users.id. *)
AllUsersRow(u, G) ==
    [num_bots |-> Coalesce(CountRows(G), 0),
     num_games |-> Coalesce(SumColumn(G, "games_played"), 0),
     num_submissions |-> Coalesce(SumColumn(G, "version_number"), 0),
     rank |-> MinColumn(G, "bot_rank"),
     score |-> Coalesce(MaxColumn(G, "score"), 0),
     user_id |-> u]

EvalAllUsers(q) ==
    {AllUsersRow(u, OuterJoined(u, q.ranked.alias)) : u \in users}

(* ranked_users_query: users JOIN ranked_bots, GROUP BY users.id. *)
WorstRank(G) == MaxColumn(G, "bot_rank")
BestRank(G) == MinColumn(G, "bot_rank")

EvalRankedUsers(q) ==
    {[rank |-> BestRank({r \in Out(q.ranked.alias) : r.user_id = u}), user_id |-> u] :
        u \in {x \in users : \E r \in Out(q.ranked.alias) : r.user_id = x}}

(* total_ranked_bots: the WHERE clause, and the count of the rows it keeps. *)
AnyGames(b) == b.games_played >= 0
HasPlayed(b) == b.games_played > 0

RECURSIVE CountWhere(_)
CountWhere(S) ==
    IF S = {} THEN 0
    ELSE LET b == CHOOSE x \in S : TRUE
         IN  (IF HasPlayed(b) THEN 1 ELSE 0) + CountWhere(S \ {b})

EvalTotalRankedBots == {[count |-> CountWhere(bots)]}

(* hackathon_ranked_bots_users_query: ranked_bots JOIN users JOIN          *)
(* local_rank ON the user and the bot.                                     *)
LocalJoinOnBot(g, l) == l.bot_id = g.bot_id
LocalJoinOn(g, l) == l.user_id = g.user_id /\ l.bot_id = g.bot_id

EvalHackathonUsers(q) ==
    {[bot_id |-> g.bot_id, global_rank |-> g.bot_rank, local_rank |-> l.bot_rank,
      num_games |-> g.games_played, num_submissions |-> g.version_number,
      score |-> g.score, user_id |-> g.user_id] :
        <<g, l>> \in {p \in Out(q.ranked.alias) \X Out(q.local_rank.alias) :
                         p[1].user_id \in users /\ LocalJoinOn(p[1], p[2])}}

Eval(q) ==
    CASE q.kind \in {"ranked_bots", "hackathon_ranked_bots"} -> Out(q.alias)
      [] q.kind = "all_users" -> EvalAllUsers(q)
      [] q.kind = "ranked_users" -> EvalRankedUsers(q)
      [] q.kind = "total_ranked_bots" -> EvalTotalRankedBots
      [] q.kind = "hackathon_ranked_bots_users" -> EvalHackathonUsers(q)

(* --------------------- executing on the connection -------------------- *)
(* The connection takes a query; the table contents it reads stay as they  *)
(* are until the result is fetched.                                        *)
Execute(q) ==
    /\ query = Idle
    /\ query' = q
    /\ insts' = [a \in Aliases(q) |-> NewInstance(Sub(q, a))]
    /\ UNCHANGED <<db, session, result, calls>>

(* The sub-select rn of a ranking: SELECT @v := 0. *)
InitCounter(a) ==
    /\ query # Idle /\ ~Fetched
    /\ a \in DOMAIN insts
    /\ ~insts[a].inited
    /\ session' = [session EXCEPT ![insts[a].variable] = CounterInit(insts[a].variable)]
    /\ insts' = [insts EXCEPT ![a].inited = TRUE]
    /\ UNCHANGED <<db, query, result, calls>>

(* One row of a ranking: (@v := @v + 1) AS bot_rank, in score order. *)
EmitRow(a) ==
    /\ query # Idle /\ ~Fetched
    /\ a \in DOMAIN insts
    /\ insts[a].inited
    /\ \E b \in NextRows(Remaining(Sub(query, a), insts[a])) :
          /\ session' = [session EXCEPT
                            ![insts[a].variable] = CounterNext(insts[a].variable)]
          /\ insts' = [insts EXCEPT
                          ![a].out = Append(@, RankedRow(b, CounterNext(insts[a].variable)))]
    /\ UNCHANGED <<db, query, result, calls>>

(* Every sub-select is complete: the joins and aggregates run and the      *)
(* rows go back to the caller.                                             *)
Fetch ==
    /\ query # Idle /\ ~Fetched
    /\ \A a \in DOMAIN insts : InstanceDone(Sub(query, a), insts[a])
    /\ result' = [rows |-> Eval(query)]
    /\ UNCHANGED <<db, session, query, insts, calls>>

Close ==
    /\ Fetched
    /\ query' = Idle
    /\ insts' = NoInstances
    /\ result' = NoResult
    /\ UNCHANGED <<db, session, calls>>

(* ----------------------- calling the builders ------------------------- *)
NoCall == [call |-> "none"]
BuilderNames == {"ranked_bots_query", "hackathon_ranked_bots_query",
                 "ranked_users_query", "hackathon_ranked_bots_users_query"}
AliasNames == {"ranked_bots", "hackathon_ranked_bots", "ranked_users",
               "hackathon_ranked_bots_users"}

(* str(temptable): the SQL of the inner select, which names the counter    *)
(* and holds the hackathon id as a bind parameter.                         *)
TemptableSql(variable) == <<"SELECT ... @", variable, ":=0 ... ORDER BY bot.score DESC">>

(* What calling hackathon_ranked_bots_query prints. *)
HackathonPrints(variable) == <<TemptableSql(variable)>>

(* A call of a builder: what it prints and the query it returns. *)
CallBuilder(name, printed, q) ==
    /\ Len(stdout) + Len(printed) <= MaxPrinted
    /\ stdout' = stdout \o printed
    /\ returned' = [call |-> name, value |-> q]
    /\ UNCHANGED <<db, session, query, insts, result, gcs_buckets, gcs_requests>>

Call_ranked_bots_query(variable, alias) ==
    CallBuilder("ranked_bots_query", <<>>, ranked_bots_query(variable, alias))

Call_hackathon_ranked_bots_query(hackathon_id, variable, alias) ==
    CallBuilder("hackathon_ranked_bots_query", HackathonPrints(variable),
                hackathon_ranked_bots_query(hackathon_id, variable, alias))

Call_ranked_users_query(alias) ==
    CallBuilder("ranked_users_query", <<>>, ranked_users_query(alias))

(* It calls hackathon_ranked_bots_query(hackathon_id, alias="local_rank"). *)
Call_hackathon_ranked_bots_users_query(hackathon_id, alias) ==
    CallBuilder("hackathon_ranked_bots_users_query",
                HackathonPrints(HackathonDefaultVariable),
                hackathon_ranked_bots_users_query(hackathon_id, alias))

(* ------------------------- the bucket accessors ----------------------- *)
(* The configured bucket identifiers. *)
GCLOUD_COMPILATION_BUCKET == <<"compilation", 0>>
GCLOUD_BOT_BUCKET == <<"bot", 0>>
GCLOUD_REPLAY_BUCKETS == [k \in 0..(NumReplayBuckets - 1) |-> <<"replay", k>>]
GCLOUD_ERROR_LOG_BUCKET == <<"error_log", 0>>

BucketNames ==
    {GCLOUD_COMPILATION_BUCKET, GCLOUD_BOT_BUCKET, GCLOUD_ERROR_LOG_BUCKET}
        \cup {GCLOUD_REPLAY_BUCKETS[k] : k \in DOMAIN GCLOUD_REPLAY_BUCKETS}

(* get_storage_client().get_bucket(name): one request of a fresh client;   *)
(* the handle of an existing bucket, or the storage error raised to the    *)
(* caller.                                                                 *)
GetBucket(name) ==
    [outcome |-> IF name \in gcs_buckets THEN [bucket |-> name]
                 ELSE [error |-> "NotFound"],
     requests |-> <<name>>]

(* An index config.GCLOUD_REPLAY_BUCKETS does not hold: the lookup raises  *)
(* before any request is made.                                             *)
LookupFails == [outcome |-> [error |-> "LookupError"], requests |-> <<>>]

get_compilation_bucket == GetBucket(GCLOUD_COMPILATION_BUCKET)

CompiledFromCompilation == GetBucket(GCLOUD_COMPILATION_BUCKET)
get_bot_bucket == GetBucket(GCLOUD_BOT_BUCKET)

ReplayDefaultKind == 0
get_replay_bucket(kind) ==
    IF kind \in DOMAIN GCLOUD_REPLAY_BUCKETS
    THEN GetBucket(GCLOUD_REPLAY_BUCKETS[kind])
    ELSE LookupFails

get_error_log_bucket == GetBucket(GCLOUD_ERROR_LOG_BUCKET)

CallAccessor(name, kind, r) ==
    /\ gcs_requests' = r.requests
    /\ returned' = [call |-> name, kind |-> kind, value |-> r.outcome]
    /\ UNCHANGED <<db, session, query, insts, result, stdout, gcs_buckets>>

Call_get_compilation_bucket ==
    CallAccessor("get_compilation_bucket", 0, get_compilation_bucket)

Call_get_bot_bucket == CallAccessor("get_bot_bucket", 0, get_bot_bucket)

Call_get_replay_bucket(kind) ==
    CallAccessor("get_replay_bucket", kind, get_replay_bucket(kind))

Call_get_replay_bucket_default ==
    CallAccessor("get_replay_bucket", ReplayDefaultKind,
                 get_replay_bucket(ReplayDefaultKind))

Call_get_error_log_bucket ==
    CallAccessor("get_error_log_bucket", 0, get_error_log_bucket)

(* ------------------------------ the specs ----------------------------- *)
InitConnection ==
    /\ session = [n \in CounterNames |-> NULL]
    /\ query = Idle
    /\ insts = NoInstances
    /\ result = NoResult

InitCalls ==
    /\ stdout = <<>>
    /\ returned = NoCall
    /\ gcs_buckets = {}
    /\ gcs_requests = <<>>

(* The global ranking, executed again and again on one connection. *)
Init ==
    /\ users = UserIds
    /\ bots \in BotTables(MaxBots, {0, MaxGames})
    /\ hackathon_participants = {}
    /\ InitConnection
    /\ InitCalls

Next ==
    \/ Execute(ranked_bots)
    \/ \E a \in DOMAIN insts : InitCounter(a)
    \/ \E a \in DOMAIN insts : EmitRow(a)
    \/ Fetch
    \/ Close

Spec == Init /\ [][Next]_vars

(* The hackathon rankings: the local ranking alone, and the composite     *)
(* that joins it with the global ranking, its two sub-selects evaluated    *)
(* row by row in any interleaving.                                         *)
InitHackathon ==
    /\ users = UserIds
    /\ bots \in BotTables(MaxBots, {MaxGames})
    /\ hackathon_participants \in SUBSET (HackathonIds \X UserIds)
    /\ InitConnection
    /\ InitCalls

NextHackathon ==
    \/ \E h \in HackathonIds :
          Execute(hackathon_ranked_bots_query(h, HackathonDefaultVariable,
                                              HackathonDefaultAlias))
    \/ \E h \in HackathonIds :
          Execute(hackathon_ranked_bots_users_query(h, "hackathon_ranked_bots_users"))
    \/ \E a \in DOMAIN insts : InitCounter(a)
    \/ \E a \in DOMAIN insts : EmitRow(a)
    \/ Fetch
    \/ Close

SpecHackathon == InitHackathon /\ [][NextHackathon]_vars

(* The reporting views over a fixed table: all_users and the ranking of   *)
(* users by their best bot.                                                *)
InitViews ==
    /\ users = UserIds
    /\ bots \in BotTables(MaxBots, {0, MaxGames})
    /\ hackathon_participants = {}
    /\ InitConnection
    /\ InitCalls

NextViews ==
    \/ Execute(all_users)
    \/ Execute(ranked_users_query("ranked_users"))
    \/ \E a \in DOMAIN insts : InitCounter(a)
    \/ \E a \in DOMAIN insts : EmitRow(a)
    \/ Fetch
    \/ Close

SpecViews == InitViews /\ [][NextViews]_vars

(* The bot table as the rest of the platform changes it between two        *)
(* statements of this connection: a submission adds a user's next bot, a   *)
(* finished game updates a bot's score and games_played, and a user's      *)
(* latest bot can be withdrawn.                                            *)
InsertBot(u, s, g) ==
    /\ query = Idle
    /\ Cardinality(bots) < MaxBots
    /\ bots' = bots \cup {BotRow(u, Cardinality(BotsOf(bots, u)), s, g,
                                 NextVersion(bots, u))}
    /\ UNCHANGED <<users, hackathon_participants, session, query, insts, result, calls>>

UpdateBot(b, s, g) ==
    /\ query = Idle
    /\ b \in bots
    /\ bots' = (bots \ {b}) \cup {[b EXCEPT !.score = s, !.games_played = g]}
    /\ UNCHANGED <<users, hackathon_participants, session, query, insts, result, calls>>

DeleteBot(b) ==
    /\ query = Idle
    /\ b \in bots
    /\ b.id + 1 = Cardinality(BotsOf(bots, b.user_id))
    /\ bots' = bots \ {b}
    /\ UNCHANGED <<users, hackathon_participants, session, query, insts, result, calls>>

InitBots ==
    /\ users = UserIds
    /\ bots = {}
    /\ hackathon_participants = {}
    /\ InitConnection
    /\ InitCalls

NextBots ==
    \/ \E u \in UserIds, s \in Scores, g \in Games : InsertBot(u, s, g)
    \/ \E b \in bots, s \in Scores, g \in Games : UpdateBot(b, s, g)
    \/ \E b \in bots : DeleteBot(b)
    \/ Execute(total_ranked_bots)
    \/ Fetch
    \/ Close

SpecBots == InitBots /\ [][NextBots]_vars

(* The module's functions as the API layer calls them: the query builders *)
(* and the bucket accessors, against an object storage holding any of the  *)
(* configured buckets.                                                     *)
InitModuleCalls ==
    /\ users = UserIds
    /\ bots = {}
    /\ hackathon_participants = {}
    /\ InitConnection
    /\ stdout = <<>>
    /\ returned = NoCall
    /\ gcs_buckets \in SUBSET BucketNames
    /\ gcs_requests = <<>>

NextCalls ==
    \/ \E v \in CounterNames, a \in AliasNames : Call_ranked_bots_query(v, a)
    \/ \E h \in HackathonIds, v \in CounterNames, a \in AliasNames :
          Call_hackathon_ranked_bots_query(h, v, a)
    \/ \E a \in AliasNames : Call_ranked_users_query(a)
    \/ \E h \in HackathonIds, a \in AliasNames :
          Call_hackathon_ranked_bots_users_query(h, a)
    \/ Call_get_compilation_bucket
    \/ Call_get_bot_bucket
    \/ \E kind \in 0..NumReplayBuckets : Call_get_replay_bucket(kind)
    \/ Call_get_replay_bucket_default
    \/ Call_get_error_log_bucket

SpecCalls == InitModuleCalls /\ [][NextCalls]_vars

(* ------------------------------ the claims ---------------------------- *)
Ranks(R) == {r.bot_rank : r \in R}
Keys(R) == {<<r.user_id, r.bot_id>> : r \in R}
BotKeys(B) == {<<b.user_id, b.id>> : b \in B}
ScoreOrdered(R) == \A x, y \in R : x.score > y.score => x.bot_rank < y.bot_rank

(* R ranks exactly the rows B: one row for each, the ranks 1..N each used  *)
(* once, a higher score always ranked before a lower one.                  *)
RanksExactly(R, B) ==
    /\ Keys(R) = BotKeys(B)
    /\ Cardinality(R) = Cardinality(B)
    /\ Ranks(R) = 1..Cardinality(B)
    /\ ScoreOrdered(R)

(* C1: the rows ranked_bots_query returns carry the ranks 1..N, each once, *)
(* N the number of bot rows, tied scores and bots without games included,  *)
(* and a bot of strictly higher score has a strictly smaller rank.         *)
C1_RanksArePermutation ==
    (Fetched /\ query.kind = "ranked_bots") => RanksExactly(result.rows, bots)

C1_Witness ==
    /\ Fetched /\ query.kind = "ranked_bots"
    /\ \E x, y \in result.rows : x # y /\ x.score = y.score
    /\ \E x, y \in result.rows : x.score > y.score
    /\ \E x \in result.rows : x.games_played = 0

(* The bots whose owner participates in hackathon h. *)
ParticipantBots(h) == {b \in bots : <<h, b.user_id>> \in hackathon_participants}

(* C2: hackathon_ranked_bots_query(H) returns exactly the bots whose owner *)
(* participates in H, with the local ranks 1..M in descending score order. *)
C2_HackathonRanksParticipants ==
    (Fetched /\ query.kind = "hackathon_ranked_bots")
        => RanksExactly(result.rows, ParticipantBots(query.hackathon_id))

C2_Witness ==
    /\ Fetched /\ query.kind = "hackathon_ranked_bots"
    /\ Cardinality(result.rows) >= 2
    /\ \E b \in bots, h \in HackathonIds :
          /\ h # query.hackathon_id
          /\ <<h, b.user_id>> \in hackathon_participants
          /\ <<query.hackathon_id, b.user_id>> \notin hackathon_participants

(* C3: every row of hackathon_ranked_bots_users_query(H) carries, for its  *)
(* (user_id, bot_id), the rank the global ranking over all bots gave that  *)
(* bot and the rank the ranking of H's bots gave it.                       *)
C3_CompositeCarriesBothRanks ==
    (Fetched /\ query.kind = "hackathon_ranked_bots_users") =>
        LET G == Out(query.ranked.alias)
            L == Out(query.local_rank.alias)
        IN  /\ RanksExactly(G, bots)
            /\ RanksExactly(L, ParticipantBots(query.local_rank.hackathon_id))
            /\ \A row \in result.rows :
                  /\ \E g \in G : /\ g.user_id = row.user_id /\ g.bot_id = row.bot_id
                                  /\ g.bot_rank = row.global_rank
                  /\ \E l \in L : /\ l.user_id = row.user_id /\ l.bot_id = row.bot_id
                                  /\ l.bot_rank = row.local_rank

C3_Witness ==
    /\ Fetched /\ query.kind = "hackathon_ranked_bots_users"
    /\ Cardinality(result.rows) >= 2
    /\ \E row \in result.rows : row.global_rank # row.local_rank
    /\ \E x, y \in result.rows : x.user_id # y.user_id /\ x.bot_id = y.bot_id

(* C8: while the two rankings of hackathon_ranked_bots_users_query are     *)
(* evaluated row by row in any interleaving, the k-th row each has emitted *)
(* has rank k, and each ends with the ranks 1..N of its own rows.          *)
C8_InterleavedRankingsPermute ==
    (query.kind = "hackathon_ranked_bots_users") =>
        \A a \in DOMAIN insts :
            /\ \A k \in 1..Len(insts[a].out) : insts[a].out[k].bot_rank = k
            /\ InstanceDone(Sub(query, a), insts[a])
                  => Ranks(Out(a)) = 1..Cardinality(SourceRows(Sub(query, a)))

C8_Witness ==
    /\ query.kind = "hackathon_ranked_bots_users"
    /\ ~Fetched
    /\ \A a, b \in DOMAIN insts : a # b => insts[a].variable # insts[b].variable
    /\ \A a \in DOMAIN insts :
          /\ insts[a].inited
          /\ Len(insts[a].out) >= 1
          /\ Remaining(Sub(query, a), insts[a]) # {}

(* C10: every execution of the ranking query sets its counter to 0 first:  *)
(* whatever value an earlier execution left in the session, the counter    *)
(* counts the rows emitted, the k-th row gets rank k, and the finished     *)
(* execution returns the ranks 1..N.                                       *)
C10_CounterReinitialised ==
    (query.kind = "ranked_bots") =>
        \A a \in DOMAIN insts :
            /\ insts[a].inited =>
                  /\ session[insts[a].variable] = Len(insts[a].out)
                  /\ \A k \in 1..Len(insts[a].out) : insts[a].out[k].bot_rank = k
            /\ Fetched => Ranks(result.rows) = 1..Cardinality(bots)

(* A later execution has begun on a connection whose counter still holds  *)
(* the N an earlier execution counted up to.                               *)
C10_Witness ==
    /\ query.kind = "ranked_bots"
    /\ Cardinality(bots) >= 2
    /\ \A a \in DOMAIN insts :
          ~insts[a].inited /\ session[insts[a].variable] = Cardinality(bots)

(* C4: in all_users every user without a bot has exactly one row, with    *)
(* num_bots, num_games, num_submissions and score 0 and no rank.           *)
C4_BotlessUsersAllZero ==
    (Fetched /\ query.kind = "all_users") =>
        \A u \in users :
            BotsOf(bots, u) = {} =>
                /\ Cardinality({r \in result.rows : r.user_id = u}) = 1
                /\ \A r \in result.rows :
                      r.user_id = u =>
                          /\ r.num_bots = 0
                          /\ r.num_games = 0
                          /\ r.num_submissions = 0
                          /\ r.score = 0
                          /\ r.rank = NULL

(* C5: ranked_users_query returns one row for every user that owns a bot   *)
(* and none for the others, and a row's rank is the smallest of the ranks  *)
(* the global ranking gave that user's bots.                               *)
C5_UserRankIsBestBot ==
    (Fetched /\ query.kind = "ranked_users") =>
        LET G == Out(query.ranked.alias)
            owners == {u \in users : BotsOf(bots, u) # {}}
        IN  /\ RanksExactly(G, bots)
            /\ {r.user_id : r \in result.rows} = owners
            /\ Cardinality(result.rows) = Cardinality(owners)
            /\ \A row \in result.rows :
                  /\ \E g \in G : g.user_id = row.user_id /\ g.bot_rank = row.rank
                  /\ \A g \in G : g.user_id = row.user_id => row.rank <= g.bot_rank

C5_Witness ==
    /\ Fetched /\ query.kind = "ranked_users"
    /\ \E row \in result.rows :
          /\ row.rank = 2
          /\ \E g \in Out(query.ranked.alias) :
                g.user_id = row.user_id /\ g.bot_rank = 3

(* The rows of a bot table that have played. *)
Played(B) == {b \in B : b.games_played > 0}

(* C6: total_ranked_bots is the number of bot rows with games_played > 0   *)
(* on every table, and no step that leaves those rows as they are (adding, *)
(* removing or changing bots without games) changes it.                    *)
C6_TotalCountsPlayedBots ==
    [][/\ CountWhere(bots') = Cardinality(Played(bots'))
       /\ (Fetched' /\ query'.kind = "total_ranked_bots")
              => result'.rows = {[count |-> Cardinality(Played(bots'))]}
       /\ Played(bots') = Played(bots) => CountWhere(bots') = CountWhere(bots)]_vars

C6_Witness ==
    /\ Fetched /\ query.kind = "total_ranked_bots"
    /\ Played(bots) # {}
    /\ Played(bots) # bots
    /\ result.rows = {[count |-> Cardinality(Played(bots))]}

(* The bucket configured for the accessor a call record names. *)
ConfiguredFor(r) ==
    CASE r.call = "get_compilation_bucket" -> GCLOUD_COMPILATION_BUCKET
      [] r.call = "get_bot_bucket" -> GCLOUD_BOT_BUCKET
      [] r.call = "get_replay_bucket" -> GCLOUD_REPLAY_BUCKETS[r.kind]
      [] r.call = "get_error_log_bucket" -> GCLOUD_ERROR_LOG_BUCKET

IsAccessorCall(r) ==
    /\ r.call \in {"get_compilation_bucket", "get_bot_bucket", "get_replay_bucket",
                   "get_error_log_bucket"}
    /\ r.call = "get_replay_bucket" => r.kind \in DOMAIN GCLOUD_REPLAY_BUCKETS

(* C7: a bucket accessor asks object storage once for the bucket          *)
(* configured for it (for the replay bucket the kind-th configured one,    *)
(* kind 0 by default) and returns the handle of that bucket; when no such  *)
(* bucket exists it ends in the storage error, with that one request made  *)
(* and no handle returned.                                                 *)
C7_AccessorReturnsConfiguredBucket ==
    IsAccessorCall(returned) =>
        /\ gcs_requests = <<ConfiguredFor(returned)>>
        /\ ConfiguredFor(returned) \in gcs_buckets
              => returned.value = [bucket |-> ConfiguredFor(returned)]
        /\ ConfiguredFor(returned) \notin gcs_buckets
              => returned.value = [error |-> "NotFound"]

C7_Witness ==
    /\ returned.call = "get_replay_bucket"
    /\ returned.kind = 1
    /\ returned.value = [bucket |-> GCLOUD_REPLAY_BUCKETS[1]]
    /\ GCLOUD_BOT_BUCKET \notin gcs_buckets

(* C9: a call of a query builder changes nothing but its returned value:   *)
(* it prints nothing, asks nothing of the database or of object storage,   *)
(* and returns a query.                                                    *)
C9_BuildersHaveNoEffect ==
    [][returned'.call \in BuilderNames =>
          /\ stdout' = stdout
          /\ gcs_requests' = gcs_requests
          /\ UNCHANGED <<db, session, query, insts, result>>
          /\ returned'.value.kind \in {"ranked_bots", "hackathon_ranked_bots",
                                       "ranked_users", "hackathon_ranked_bots_users"}]_vars

=============================================================================
